---------------------------- MODULE Spec2Model ----------------------------
(***************************************************************************)
(* Model of backend/server.js of the chatbot-async-app: the /chat          *)
(* dispatch handler, the /webhook/modelriver handler with its callback     *)
(* forwarding, and GET /conversations/:id, over the two in-memory maps     *)
(* pendingRequests and conversations.                                      *)
(*                                                                         *)
(* JSON values are modelled as tagged records (see "JavaScript values"),   *)
(* so that truthiness, typeof, optional chaining, object spread and        *)
(* JSON.stringify are computed the way the JavaScript code computes them.  *)
(* Wall-clock fields (timestamp, created_at, processed_at, createdAt) are  *)
(* left out of the records: no branch of the code reads them.              *)
(***************************************************************************)
EXTENDS Integers, Sequences, FiniteSets, TLC

(***************************************************************************)
(* Bounds of the model.                                                    *)
(***************************************************************************)
\* total number of HTTP requests the server receives in one behaviour
MaxRequests == 3
\* the same, in behaviours that draw webhooks from the wide set of requests
MaxWideRequests == 2
\* the same, in behaviours that exercise the dispatch handler
MaxDispatchRequests == 2
\* the same, in behaviours that exercise the Conversation Log
MaxLogRequests == 2
\* the same, in behaviours that exercise GET /conversations/:id
MaxLookupRequests == 3
\* the same, in behaviours that exercise the forwarding address
MaxForwardRequests == 2
\* the same, in behaviours checked for the answering of every webhook
MaxLiveRequests == 2
\* number of handlers that may be suspended at an await at the same time
MaxInFlight == 2

(***************************************************************************)
(* JavaScript values.                                                      *)
(***************************************************************************)
Undef == [t |-> "undefined"]
Null == [t |-> "null"]
Str(s) == [t |-> "string", v |-> s]
Num(n) == [t |-> "number", v |-> n]
Bool(b) == [t |-> "boolean", v |-> b]
Arr(s) == [t |-> "array", v |-> s]
\* an object is the sequence of its own properties, in insertion order
Obj(ps) == [t |-> "object", v |-> ps]
P(key, val) == [k |-> key, v |-> val]
EmptyObj == Obj(<<>>)

\* ToBoolean: undefined, null, "", 0 and false are falsy; all else is truthy
Truthy(x) ==
    CASE x.t = "undefined" -> FALSE
      [] x.t = "null" -> FALSE
      [] x.t = "string" -> x.v # ""
      [] x.t = "number" -> x.v # 0
      [] x.t = "boolean" -> x.v
      [] OTHER -> TRUE

\* a || b
Or(a, b) == IF Truthy(a) THEN a ELSE b

\* typeof x === 'object' (true of null and of arrays too)
TypeofObject(x) == x.t \in {"null", "array", "object"}

\* typeof x === 'string'
TypeofString(x) == x.t = "string"

\* Array.isArray(x)
IsArray(x) == x.t = "array"

\* x === null || x === undefined
Nullish(x) == x.t \in {"undefined", "null"}

HasKey(o, key) == o.t = "object" /\ \E i \in 1..Len(o.v) : o.v[i].k = key

\* x.key for a non-nullish x: an own property of an object, else undefined
\* (none of the keys the code reads is a built-in of strings or arrays)
Get(x, key) ==
    IF HasKey(x, key)
    THEN x.v[CHOOSE i \in 1..Len(x.v) : x.v[i].k = key].v
    ELSE Undef

\* x?.key
OptGet(x, key) == IF Nullish(x) THEN Undef ELSE Get(x, key)

\* x?.[0]
OptIndex0(x) ==
    CASE Nullish(x) -> Undef
      [] x.t = "array" -> IF Len(x.v) > 0 THEN x.v[1] ELSE Undef
      [] x.t = "string" -> IF Len(x.v) > 0 THEN Str(SubSeq(x.v, 1, 1)) ELSE Undef
      [] OTHER -> Get(x, "0")

\* the property list ps with key set to val: an existing key keeps its
\* place, a new key is added at the end
SetKey(ps, key, val) ==
    IF \E i \in 1..Len(ps) : ps[i].k = key
    THEN [i \in 1..Len(ps) |-> IF ps[i].k = key THEN P(key, val) ELSE ps[i]]
    ELSE Append(ps, P(key, val))

\* the object literal { ...x, k1: v1, k2: v2 } for an object x
Spread2(x, k1, v1, k2, v2) == Obj(SetKey(SetKey(x.v, k1, v1), k2, v2))

\* a JSON document as the peer sent it: keys whose value is undefined are
\* not in the document
Json(ps) == Obj(SelectSeq(ps, LAMBDA p : p.v.t # "undefined"))

RECURSIVE JoinStrings(_, _)
JoinStrings(ss, sep) ==
    IF Len(ss) = 0 THEN ""
    ELSE IF Len(ss) = 1 THEN ss[1]
    ELSE ss[1] \o sep \o JoinStrings(Tail(ss), sep)

\* JSON.stringify(x) as a string, for x that is not undefined
RECURSIVE StringifyText(_)
StringifyText(x) ==
    CASE x.t = "null" -> "null"
      [] x.t = "undefined" -> "null"
      [] x.t = "string" -> "\"" \o x.v \o "\""
      [] x.t = "number" -> ToString(x.v)
      [] x.t = "boolean" -> IF x.v THEN "true" ELSE "false"
      [] x.t = "array" ->
            "[" \o JoinStrings([i \in 1..Len(x.v) |-> StringifyText(x.v[i])], ",") \o "]"
      [] OTHER ->
            LET kept == SelectSeq(x.v, LAMBDA p : p.v.t # "undefined")
            IN  "{" \o JoinStrings([i \in 1..Len(kept) |->
                        "\"" \o kept[i].k \o "\":" \o StringifyText(kept[i].v)], ",") \o "}"

\* JSON.stringify(x): undefined for undefined, else the JSON text
JSONstringify(x) == IF x.t = "undefined" THEN Undef ELSE Str(StringifyText(x))

\* s.startsWith(prefix) on the text of a string
StartsWith(s, prefix) ==
    Len(s) >= Len(prefix) /\ SubSeq(s, 1, Len(prefix)) = prefix

(***************************************************************************)
(* Identifiers made outside the handlers' control flow.                    *)
(***************************************************************************)
\* the n-th value returned by uuidv4()
Uuid(n) == Str("uuid-" \o ToString(n))

\* the channel_id the provider assigns to the n-th accepted async request
ChannelId(n) == Str("ch-" \o ToString(n))

MODELRIVER_API_URL == "https://api.modelriver.com"
BACKEND_PUBLIC_URL == "http://localhost:4000"

(***************************************************************************)
(* State.                                                                  *)
(***************************************************************************)
VARIABLES
    env,              \* process.env as read at start-up
    pendingRequests,  \* Map: channel_id -> { prompt, conversationId, messageId }
    conversations,    \* Map: conversationId -> { messages: [...] }
    inflight,         \* handlers suspended at an await, by request number
    responses,        \* the HTTP responses sent so far, in order
    outbound,         \* the axios.post calls issued so far, in order
    uuids,            \* number of uuidv4() values generated so far
    channels,         \* number of channel ids the provider has assigned
    arrived           \* number of requests received so far

vars == <<env, pendingRequests, conversations, inflight, responses, outbound,
          uuids, channels, arrived>>

MODELRIVER_API_KEY == env.MODELRIVER_API_KEY

\* Map.prototype.has / get / set / delete on a map held as a function
MapHas(m, key) == key \in DOMAIN m
MapGet(m, key) == IF key \in DOMAIN m THEN m[key] ELSE Undef
MapSet(m, key, val) == [x \in DOMAIN m \cup {key} |-> IF x = key THEN val ELSE m[x]]
MapDelete(m, key) == [x \in DOMAIN m \ {key} |-> m[x]]
EmptyMap == [x \in {} |-> Undef]

\* res.status(code).json(body) for request number id.  The entry also keeps
\* what the handler did before it answered: awaited is what the call it
\* awaited ended in ("none" when it awaited nothing), found the value it
\* bound to pendingRequest, stored the entry it put into pendingRequests
\* (/chat) or the record it pushed to conversations (webhook), Undef if none
Respond(id, route, req, awaited, found, stored, code, body) ==
    responses' = Append(responses,
        [id |-> id, route |-> route, req |-> req, awaited |-> awaited,
         found |-> found, stored |-> stored, status |-> code, body |-> body])

\* a request as the handler sees it; at is the number of responses the
\* server had sent when the request arrived
Request(body, headers) == [body |-> body, headers |-> headers, at |-> Len(responses)]

(***************************************************************************)
(* POST /chat                                                              *)
(***************************************************************************)
\* the same with the conversation id sent as the message id too
ChatPayloadOneId(body, customConversationId, customMessageId) ==
    Obj(<< P("workflow", Or(Get(body, "workflow"), Str("mr_chatbot_workflow"))),
           P("messages", Arr(<< Obj(<< P("role", Str("user")),
                                       P("content", Get(body, "message")) >>) >>)),
           P("delivery_method", Str("websocket")),
           P("webhook_url", Str(BACKEND_PUBLIC_URL \o "/webhook/modelriver")),
           P("events", Or(Get(body, "events"), Arr(<< Str("webhook_received") >>))),
           P("metadata", Obj(<< P("conversation_id", customConversationId),
                                P("message_id", customConversationId),
                                P("original_prompt", Get(body, "message")) >>)) >>)

\* the payload built for the provider's async endpoint
ChatPayload(body, customConversationId, customMessageId) ==
    Obj(<< P("workflow", Or(Get(body, "workflow"), Str("mr_chatbot_workflow"))),
           P("messages", Arr(<< Obj(<< P("role", Str("user")),
                                       P("content", Get(body, "message")) >>) >>)),
           P("delivery_method", Str("websocket")),
           P("webhook_url", Str(BACKEND_PUBLIC_URL \o "/webhook/modelriver")),
           P("events", Or(Get(body, "events"), Arr(<< Str("webhook_received") >>))),
           P("metadata", Obj(<< P("conversation_id", customConversationId),
                                P("message_id", customMessageId),
                                P("original_prompt", Get(body, "message")) >>)) >>)

\* the same with the credential check made before the message check
ChatReceiveCredentialFirst(body) ==
    /\ arrived' = arrived + 1
    /\ LET id == arrived + 1
           req == Request(body, EmptyObj)
           message == Get(body, "message")
           conversationId == Get(body, "conversationId")
           customConversationId == Or(conversationId, Uuid(uuids + 1))
           used == IF Truthy(conversationId) THEN 0 ELSE 1
           customMessageId == Uuid(uuids + used + 1)
           payload == ChatPayload(body, customConversationId, customMessageId)
       IN  IF ~Truthy(MODELRIVER_API_KEY)
           THEN /\ Respond(id, "chat", req, "none", Undef, Undef, 500,
                           Obj(<< P("error", Str("MODELRIVER_API_KEY not configured. Set it in environment variables.")) >>))
                /\ UNCHANGED <<inflight, outbound, uuids>>
           ELSE IF ~Truthy(message)
           THEN /\ Respond(id, "chat", req, "none", Undef, Undef, 400,
                           Obj(<< P("error", Str("Message is required")) >>))
                /\ UNCHANGED <<inflight, outbound, uuids>>
           ELSE /\ Cardinality(DOMAIN inflight) < MaxInFlight
                /\ uuids' = uuids + used + 1
                /\ outbound' = Append(outbound,
                        [id |-> id, url |-> MODELRIVER_API_URL \o "/v1/ai/async",
                         payload |-> payload])
                /\ inflight' = MapSet(inflight, id,
                        [route |-> "chat", req |-> req,
                         messageId |-> customMessageId,
                         conversationId |-> customConversationId,
                         found |-> Undef, stored |-> Undef])
                /\ UNCHANGED responses
    /\ UNCHANGED <<env, pendingRequests, conversations, channels>>

\* the handler from its entry to its first response or to the await of the
\* provider call
ChatReceive(body) ==
    /\ arrived' = arrived + 1
    /\ LET id == arrived + 1
           req == Request(body, EmptyObj)
           message == Get(body, "message")
           conversationId == Get(body, "conversationId")
           customConversationId == Or(conversationId, Uuid(uuids + 1))
           used == IF Truthy(conversationId) THEN 0 ELSE 1
           customMessageId == Uuid(uuids + used + 1)
           payload == ChatPayload(body, customConversationId, customMessageId)
       IN  IF ~Truthy(message)
           THEN /\ Respond(id, "chat", req, "none", Undef, Undef, 400,
                           Obj(<< P("error", Str("Message is required")) >>))
                /\ UNCHANGED <<inflight, outbound, uuids>>
           ELSE IF ~Truthy(MODELRIVER_API_KEY)
           THEN /\ Respond(id, "chat", req, "none", Undef, Undef, 500,
                           Obj(<< P("error", Str("MODELRIVER_API_KEY not configured. Set it in environment variables.")) >>))
                /\ UNCHANGED <<inflight, outbound, uuids>>
           ELSE /\ Cardinality(DOMAIN inflight) < MaxInFlight
                /\ uuids' = uuids + used + 1
                /\ outbound' = Append(outbound,
                        [id |-> id, url |-> MODELRIVER_API_URL \o "/v1/ai/async",
                         payload |-> payload])
                /\ inflight' = MapSet(inflight, id,
                        [route |-> "chat", req |-> req,
                         messageId |-> customMessageId,
                         conversationId |-> customConversationId,
                         found |-> Undef, stored |-> Undef])
                /\ UNCHANGED responses
    /\ UNCHANGED <<env, pendingRequests, conversations, channels>>

\* what the provider call can end in: a 2xx response with the connection
\* details, a non-2xx response with an error document, no response at all
ProviderOutcomes == {"accepted", "rejected", "network"}

\* response.data of the provider's n-th accepted async request
ProviderData(n) ==
    Obj(<< P("channel_id", ChannelId(n)),
           P("ws_token", Str("ws-token")),
           P("websocket_url", Str("wss://api.modelriver.com/socket")),
           P("websocket_channel", Str("ai_response:project:" \o ChannelId(n).v)),
           P("project_id", Str("project")) >>)

\* error.response.data of a request the provider answered with a non-2xx
\* status
ProviderErrorData == Obj(<< P("message", Str("provider rejected the request")) >>)

\* the entry the handler puts into pendingRequests
PendingRequestOf(h) ==
    Obj(<< P("prompt", Get(h.req.body, "message")),
           P("conversationId", h.conversationId),
           P("messageId", h.messageId) >>)

\* the connection details the handler returns to the frontend
ConnectionDetails(data) ==
    Obj(<< P("channel_id", Get(data, "channel_id")),
           P("ws_token", Get(data, "ws_token")),
           P("websocket_url", Get(data, "websocket_url")),
           P("websocket_channel", Get(data, "websocket_channel")),
           P("project_id", Get(data, "project_id")) >>)

\* the same with a non-2xx response resolving the call instead of rejecting it
ChatProviderRepliesAnyStatus(id, outcome) ==
    /\ id \in DOMAIN inflight
    /\ inflight[id].route = "chat"
    /\ inflight' = MapDelete(inflight, id)
    /\ LET h == inflight[id]
           data == ProviderData(channels + 1)
           channel_id == Get(data, "channel_id")
           errorData == ProviderErrorData
           pendingRequest == PendingRequestOf(h)
       IN  CASE outcome = "accepted" ->
                  /\ channels' = channels + 1
                  /\ pendingRequests' = MapSet(pendingRequests, channel_id, pendingRequest)
                  /\ Respond(id, "chat", h.req, outcome, Undef, pendingRequest, 200,
                        ConnectionDetails(data))
             [] outcome = "rejected" ->
                  /\ pendingRequests' = MapSet(pendingRequests, Get(errorData, "channel_id"),
                                                pendingRequest)
                  /\ Respond(id, "chat", h.req, outcome, Undef, pendingRequest, 200,
                        ConnectionDetails(errorData))
                  /\ UNCHANGED channels
             [] OTHER ->
                  /\ Respond(id, "chat", h.req, outcome, Undef, Undef, 500,
                        Obj(<< P("error", Or(OptGet(OptGet(Undef, "data"), "message"),
                                             Str("Network Error"))),
                               P("details", OptGet(Undef, "data")) >>))
                  /\ UNCHANGED <<pendingRequests, channels>>
    /\ UNCHANGED <<env, conversations, outbound, uuids, arrived>>

\* the same with the entry stored under the conversationId
ChatProviderRepliesKeyedByConversation(id, outcome) ==
    /\ id \in DOMAIN inflight
    /\ inflight[id].route = "chat"
    /\ inflight' = MapDelete(inflight, id)
    /\ LET h == inflight[id]
           data == ProviderData(channels + 1)
           channel_id == Get(data, "channel_id")
           errorData == ProviderErrorData
           pendingRequest == PendingRequestOf(h)
       IN  CASE outcome = "accepted" ->
                  /\ channels' = channels + 1
                  /\ pendingRequests' = MapSet(pendingRequests, h.conversationId, pendingRequest)
                  /\ Respond(id, "chat", h.req, outcome, Undef, pendingRequest, 200,
                        ConnectionDetails(data))
             [] outcome = "rejected" ->
                  /\ Respond(id, "chat", h.req, outcome, Undef, Undef, 500,
                        Obj(<< P("error", Or(OptGet(errorData, "message"),
                                             Str("Request failed with status code 422"))),
                               P("details", errorData) >>))
                  /\ UNCHANGED <<pendingRequests, channels>>
             [] OTHER ->
                  /\ Respond(id, "chat", h.req, outcome, Undef, Undef, 500,
                        Obj(<< P("error", Or(OptGet(OptGet(Undef, "data"), "message"),
                                             Str("Network Error"))),
                               P("details", OptGet(Undef, "data")) >>))
                  /\ UNCHANGED <<pendingRequests, channels>>
    /\ UNCHANGED <<env, conversations, outbound, uuids, arrived>>

\* the handler from the end of the provider call to its response
ChatProviderReplies(id, outcome) ==
    /\ id \in DOMAIN inflight
    /\ inflight[id].route = "chat"
    /\ inflight' = MapDelete(inflight, id)
    /\ LET h == inflight[id]
           data == ProviderData(channels + 1)
           channel_id == Get(data, "channel_id")
           errorData == ProviderErrorData
           pendingRequest == PendingRequestOf(h)
       IN  CASE outcome = "accepted" ->
                  /\ channels' = channels + 1
                  /\ pendingRequests' = MapSet(pendingRequests, channel_id, pendingRequest)
                  /\ Respond(id, "chat", h.req, outcome, Undef, pendingRequest, 200,
                        ConnectionDetails(data))
             [] outcome = "rejected" ->
                  /\ Respond(id, "chat", h.req, outcome, Undef, Undef, 500,
                        Obj(<< P("error", Or(OptGet(errorData, "message"),
                                             Str("Request failed with status code 422"))),
                               P("details", errorData) >>))
                  /\ UNCHANGED <<pendingRequests, channels>>
             [] OTHER ->
                  /\ Respond(id, "chat", h.req, outcome, Undef, Undef, 500,
                        Obj(<< P("error", Or(OptGet(OptGet(Undef, "data"), "message"),
                                             Str("Network Error"))),
                               P("details", OptGet(Undef, "data")) >>))
                  /\ UNCHANGED <<pendingRequests, channels>>
    /\ UNCHANGED <<env, conversations, outbound, uuids, arrived>>

(***************************************************************************)
(* POST /webhook/modelriver                                                *)
(***************************************************************************)
\* callbackUrl.match(/\/callback\/([^\/\?]+)/): the first group of the
\* leftmost match, null when there is no match
UrlChannelId(callbackUrl) ==
    LET pat == "/callback/"
        stops == {"/", "?"}
        starts == { j \in 1..(Len(callbackUrl) - Len(pat)) :
                      /\ SubSeq(callbackUrl, j, j + Len(pat) - 1) = pat
                      /\ SubSeq(callbackUrl, j + Len(pat), j + Len(pat)) \notin stops }
    IN  IF starts = {}
        THEN Null
        ELSE LET j == CHOOSE x \in starts : \A y \in starts : x <= y
                 b == j + Len(pat)
                 ends == { k \in b..Len(callbackUrl) :
                             \A m \in b..k : SubSeq(callbackUrl, m, m) \notin stops }
                 e == CHOOSE x \in ends : \A y \in ends : x >= y
             IN  Str(SubSeq(callbackUrl, b, e))

\* urlChannelId && urlChannelId !== channel_id, the condition of the
\* 'Channel ID mismatch' warning
ChannelIdMismatch(callbackUrl, channel_id) ==
    /\ Truthy(UrlChannelId(callbackUrl))
    /\ UrlChannelId(callbackUrl) # channel_id

\* the same with an address whose channel id differs from the one of the
\* body taken as not provided
CallbackUrlMatchingChannel(req) ==
    LET callbackUrl ==
            Or(Get(req.body, "callback_url"), Get(req.headers, "x-modelriver-callback-url"))
    IN  IF TypeofString(callbackUrl)
           /\ ChannelIdMismatch(callbackUrl.v, Get(req.body, "channel_id"))
        THEN Undef
        ELSE callbackUrl

\* the same with the header taking precedence over the field of the body
CallbackUrlHeaderFirst(req) ==
    Or(Get(req.headers, "x-modelriver-callback-url"), Get(req.body, "callback_url"))

\* const callbackUrl = callback_url || req.headers['x-modelriver-callback-url']
CallbackUrl(req) ==
    Or(Get(req.body, "callback_url"), Get(req.headers, "x-modelriver-callback-url"))

\* const responseData = ai_response?.data || data
ResponseData(body) ==
    Or(OptGet(Get(body, "ai_response"), "data"), Get(body, "data"))

\* const responseDataToProcess = responseData || data
ResponseDataToProcess(body) == Or(ResponseData(body), Get(body, "data"))

\* x?.choices?.[0]?.message?.content
ChoicesContent(x) ==
    OptGet(OptGet(OptIndex0(OptGet(x, "choices")), "message"), "content")

\* the structured-output test of the handler
IsStructured(x) ==
    /\ Truthy(x)
    /\ TypeofObject(x)
    /\ ~Truthy(Get(x, "choices"))
    /\ ~Truthy(Get(x, "response"))

\* the value the handler binds to aiResponse
ExtractAiResponse(x) ==
    IF IsStructured(x)
    THEN x
    ELSE Or(Or(ChoicesContent(x), ChoicesContent(OptGet(x, "response"))),
            JSONstringify(x))

\* meta?.usage || data?.usage
RecordUsage(body) ==
    Or(OptGet(Get(body, "meta"), "usage"), OptGet(Get(body, "data"), "usage"))

\* the enriched record
BuildRecord(body, pendingRequest, messageId) ==
    Obj(<< P("id", messageId),
           P("prompt", Or(Get(pendingRequest, "prompt"), Str("Unknown prompt"))),
           P("response", ExtractAiResponse(ResponseDataToProcess(body))),
           P("channel_id", Get(body, "channel_id")),
           P("conversation_id", Get(pendingRequest, "conversationId")),
           P("usage", RecordUsage(body)) >>)

\* x?.substring(0, 50) throws a TypeError when x is neither nullish nor a
\* string: x.substring is then undefined and is called
SubstringThrows(x) == ~Nullish(x) /\ ~TypeofString(x)

\* the 'Simulated DB Save' log line throws
SaveLogThrows(record) ==
    SubstringThrows(Get(record, "prompt")) \/ SubstringThrows(Get(record, "response"))

SaveLogError(record) ==
    IF SubstringThrows(Get(record, "prompt"))
    THEN Str("record.prompt?.substring is not a function")
    ELSE Str("record.response?.substring is not a function")

\* the same without the has-check: the container is created anew on every
\* append
PushRecordReset(convs, conversationId, record) ==
    MapSet(convs, conversationId, Obj(<< P("messages", Arr(<< record >>)) >>))

\* the same with the record put in front of its conversation's messages
PushRecordUnshift(convs, conversationId, record) ==
    LET had == IF MapHas(convs, conversationId)
               THEN Get(convs[conversationId], "messages").v
               ELSE <<>>
    IN  MapSet(convs, conversationId,
               Obj(<< P("messages", Arr(<< record >> \o had)) >>))

\* conversations after the record is pushed to its conversation's messages
PushRecord(convs, conversationId, record) ==
    LET had == IF MapHas(convs, conversationId)
               THEN Get(convs[conversationId], "messages").v
               ELSE <<>>
    IN  MapSet(convs, conversationId,
               Obj(<< P("messages", Arr(Append(had, record))) >>))

\* typeof callbackUrl === 'string' && callbackUrl.startsWith('http')
ValidCallbackUrl(callbackUrl) ==
    TypeofString(callbackUrl) /\ StartsWith(callbackUrl.v, "http")

\* the value the handler binds to callbackData
CallbackData(body) ==
    LET type == Get(body, "type")
        ai_response == Get(body, "ai_response")
        data == Get(body, "data")
    IN  IF type = Str("task.ai_generated") /\ Truthy(OptGet(ai_response, "data"))
        THEN Get(ai_response, "data")
        ELSE IF Truthy(data)
        THEN data
        ELSE Or(ResponseData(body), EmptyObj)

\* the same with the ids of the payload taking precedence over the ids of
\* the record
EnrichedDataKeepsPayloadIds(callbackData, messageId, conversationId) ==
    IF Truthy(callbackData) /\ TypeofObject(callbackData) /\ ~IsArray(callbackData)
       /\ callbackData # Null
    THEN Spread2(callbackData, "id", Or(Get(callbackData, "id"), messageId),
                 "conversation_id",
                 Or(Get(callbackData, "conversation_id"), conversationId))
    ELSE IF IsArray(callbackData)
    THEN Obj(<< P("items", callbackData), P("id", messageId),
                P("conversation_id", conversationId) >>)
    ELSE IF callbackData # Null /\ callbackData # Undef
    THEN Obj(<< P("content", callbackData), P("id", messageId),
                P("conversation_id", conversationId) >>)
    ELSE Obj(<< P("id", messageId), P("conversation_id", conversationId),
                P("message", Str("Response processed")) >>)

\* the same with an object put under content, like a primitive, instead of
\* being spread
EnrichedDataWrapsObjects(callbackData, messageId, conversationId) ==
    IF IsArray(callbackData)
    THEN Obj(<< P("items", callbackData), P("id", messageId),
                P("conversation_id", conversationId) >>)
    ELSE IF callbackData # Null /\ callbackData # Undef
    THEN Obj(<< P("content", callbackData), P("id", messageId),
                P("conversation_id", conversationId) >>)
    ELSE Obj(<< P("id", messageId), P("conversation_id", conversationId),
                P("message", Str("Response processed")) >>)

\* the value the handler binds to enrichedData
EnrichedData(callbackData, messageId, conversationId) ==
    IF Truthy(callbackData) /\ TypeofObject(callbackData) /\ ~IsArray(callbackData)
       /\ callbackData # Null
    THEN Spread2(callbackData, "id", messageId, "conversation_id", conversationId)
    ELSE IF IsArray(callbackData)
    THEN Obj(<< P("items", callbackData), P("id", messageId),
                P("conversation_id", conversationId) >>)
    ELSE IF callbackData # Null /\ callbackData # Undef
    THEN Obj(<< P("content", callbackData), P("id", messageId),
                P("conversation_id", conversationId) >>)
    ELSE Obj(<< P("id", messageId), P("conversation_id", conversationId),
                P("message", Str("Response processed")) >>)

\* meta?.usage || data?.usage || ai_response?.meta?.usage || {}
CallbackUsage(body) ==
    Or(Or(Or(OptGet(Get(body, "meta"), "usage"), OptGet(Get(body, "data"), "usage")),
          OptGet(OptGet(Get(body, "ai_response"), "meta"), "usage")),
       EmptyObj)

\* the value the handler binds to callbackPayload
CallbackPayload(body, messageId, conversationId) ==
    Obj(<< P("data", Or(EnrichedData(CallbackData(body), messageId, conversationId),
                        EmptyObj)),
           P("task_id", messageId),
           P("metadata", Obj(<< P("conversation_id", conversationId),
                                P("channel_id", Get(body, "channel_id")),
                                P("usage", CallbackUsage(body)) >>)) >>)

\* the pre-send validation that throws 'Callback data must be a valid object'
InvalidCallbackPayload(callbackPayload) ==
    LET data == Get(callbackPayload, "data")
    IN  ~Truthy(data) \/ ~TypeofObject(data) \/ IsArray(data)

\* the same with the callback POST issued before the record is stored and
\* the pending request is cleaned up
WebhookReceiveForwardsFirst(body, headers) ==
    /\ arrived' = arrived + 1
    /\ LET id == arrived + 1
           req == Request(body, headers)
           channel_id == Get(body, "channel_id")
           callbackUrl == CallbackUrl(req)
           pendingRequest == Or(MapGet(pendingRequests, channel_id), EmptyObj)
           conversationId == Get(pendingRequest, "conversationId")
           customMessageId == Get(pendingRequest, "messageId")
           messageId == Or(customMessageId, Uuid(uuids + 1))
           used == IF Truthy(customMessageId) THEN 0 ELSE 1
           record == BuildRecord(body, pendingRequest, messageId)
           callbackPayload == CallbackPayload(body, messageId, conversationId)
       IN  /\ uuids' = uuids + used
           /\ IF SaveLogThrows(record)
              THEN /\ Respond(id, "webhook", req, "none", pendingRequest, Undef, 500,
                              Obj(<< P("error", SaveLogError(record)) >>))
                   /\ UNCHANGED <<pendingRequests, conversations, inflight, outbound>>
              ELSE IF /\ Truthy(callbackUrl)
                      /\ ValidCallbackUrl(callbackUrl)
                      /\ ~InvalidCallbackPayload(callbackPayload)
              THEN /\ Cardinality(DOMAIN inflight) < MaxInFlight
                   /\ outbound' = Append(outbound,
                        [id |-> id, url |-> callbackUrl.v, payload |-> callbackPayload])
                   /\ inflight' = MapSet(inflight, id,
                        [route |-> "webhook", req |-> req,
                         messageId |-> messageId,
                         conversationId |-> conversationId,
                         found |-> pendingRequest, stored |-> record])
                   /\ UNCHANGED <<pendingRequests, conversations, responses>>
              ELSE /\ conversations' = PushRecord(conversations, conversationId, record)
                   /\ pendingRequests' = MapDelete(pendingRequests, channel_id)
                   /\ Respond(id, "webhook", req, "none", pendingRequest, record, 200,
                        Obj(<< P("success", Bool(TRUE)),
                               P("message", Str("Webhook processed")),
                               P("record_id", messageId) >>))
                   /\ UNCHANGED <<inflight, outbound>>
    /\ UNCHANGED <<env, channels>>

\* the handler from its entry to its response or to the await of the
\* callback POST
WebhookReceive(body, headers) ==
    /\ arrived' = arrived + 1
    /\ LET id == arrived + 1
           req == Request(body, headers)
           channel_id == Get(body, "channel_id")
           callbackUrl == CallbackUrl(req)
           pendingRequest == Or(MapGet(pendingRequests, channel_id), EmptyObj)
           conversationId == Get(pendingRequest, "conversationId")
           customMessageId == Get(pendingRequest, "messageId")
           messageId == Or(customMessageId, Uuid(uuids + 1))
           used == IF Truthy(customMessageId) THEN 0 ELSE 1
           record == BuildRecord(body, pendingRequest, messageId)
           callbackPayload == CallbackPayload(body, messageId, conversationId)
       IN  /\ uuids' = uuids + used
           /\ IF SaveLogThrows(record)
              THEN /\ Respond(id, "webhook", req, "none", pendingRequest, Undef, 500,
                              Obj(<< P("error", SaveLogError(record)) >>))
                   /\ UNCHANGED <<pendingRequests, conversations, inflight, outbound>>
              ELSE /\ conversations' = PushRecord(conversations, conversationId, record)
                   /\ pendingRequests' = MapDelete(pendingRequests, channel_id)
                   /\ IF /\ Truthy(callbackUrl)
                         /\ ValidCallbackUrl(callbackUrl)
                         /\ ~InvalidCallbackPayload(callbackPayload)
                      THEN /\ Cardinality(DOMAIN inflight) < MaxInFlight
                           /\ outbound' = Append(outbound,
                                [id |-> id, url |-> callbackUrl.v,
                                 payload |-> callbackPayload])
                           /\ inflight' = MapSet(inflight, id,
                                [route |-> "webhook", req |-> req,
                                 messageId |-> messageId,
                                 conversationId |-> conversationId,
                                 found |-> pendingRequest, stored |-> record])
                           /\ UNCHANGED responses
                      ELSE /\ Respond(id, "webhook", req, "none", pendingRequest, record, 200,
                                Obj(<< P("success", Bool(TRUE)),
                                       P("message", Str("Webhook processed")),
                                       P("record_id", messageId) >>))
                           /\ UNCHANGED <<inflight, outbound>>
    /\ UNCHANGED <<env, channels>>

\* what the callback POST can end in: a response below 500 resolves it
\* (validateStatus), anything else rejects it; the timeout is 30 seconds
CallbackTimeoutMs == 30000
CallbackOutcomes == {"2xx", "4xx", "5xx", "network", "timeout"}

\* the inner catch block: with an error that carries a response it reads
\* callbackPayload, which is declared inside the try block and is not in
\* scope, so the read throws a ReferenceError
CallbackCatchThrows(outcome) == outcome = "5xx"

\* the same with one retry of the callback POST after a network failure or
\* a timeout
WebhookCallbackRetries(id, outcome) ==
    /\ id \in DOMAIN inflight
    /\ inflight[id].route = "webhook"
    /\ LET h == inflight[id]
           posts == { o \in DOMAIN outbound : outbound[o].id = id }
           first == outbound[CHOOSE o \in posts : TRUE]
       IN  IF outcome \in {"network", "timeout"} /\ Cardinality(posts) = 1
           THEN /\ outbound' = Append(outbound, first)
                /\ UNCHANGED <<inflight, responses>>
           ELSE /\ inflight' = MapDelete(inflight, id)
                /\ UNCHANGED outbound
                /\ IF outcome \notin {"2xx", "4xx"} /\ CallbackCatchThrows(outcome)
                   THEN Respond(id, "webhook", h.req, outcome, h.found, h.stored, 500,
                                Obj(<< P("error", Str("callbackPayload is not defined")) >>))
                   ELSE Respond(id, "webhook", h.req, outcome, h.found, h.stored, 200,
                                Obj(<< P("success", Bool(TRUE)),
                                       P("message", Str("Webhook processed")),
                                       P("record_id", h.messageId) >>))
    /\ UNCHANGED <<env, pendingRequests, conversations, uuids, channels, arrived>>

\* the same with the handler never answering after a timeout of the
\* callback POST
WebhookCallbackHangsOnTimeout(id, outcome) ==
    /\ id \in DOMAIN inflight
    /\ inflight[id].route = "webhook"
    /\ inflight' = MapDelete(inflight, id)
    /\ LET h == inflight[id]
       IN  IF outcome = "timeout"
           THEN UNCHANGED responses
           ELSE IF outcome \notin {"2xx", "4xx"} /\ CallbackCatchThrows(outcome)
           THEN Respond(id, "webhook", h.req, outcome, h.found, h.stored, 500,
                        Obj(<< P("error", Str("callbackPayload is not defined")) >>))
           ELSE Respond(id, "webhook", h.req, outcome, h.found, h.stored, 200,
                        Obj(<< P("success", Bool(TRUE)),
                               P("message", Str("Webhook processed")),
                               P("record_id", h.messageId) >>))
    /\ UNCHANGED <<env, pendingRequests, conversations, outbound, uuids, channels,
                   arrived>>

\* the handler from the end of the callback POST to its response
WebhookCallbackReturns(id, outcome) ==
    /\ id \in DOMAIN inflight
    /\ inflight[id].route = "webhook"
    /\ inflight' = MapDelete(inflight, id)
    /\ LET h == inflight[id]
       IN  IF outcome \notin {"2xx", "4xx"} /\ CallbackCatchThrows(outcome)
           THEN Respond(id, "webhook", h.req, outcome, h.found, h.stored, 500,
                        Obj(<< P("error", Str("callbackPayload is not defined")) >>))
           ELSE Respond(id, "webhook", h.req, outcome, h.found, h.stored, 200,
                        Obj(<< P("success", Bool(TRUE)),
                               P("message", Str("Webhook processed")),
                               P("record_id", h.messageId) >>))
    /\ UNCHANGED <<env, pendingRequests, conversations, outbound, uuids, channels,
                   arrived>>

(***************************************************************************)
(* GET /conversations/:id                                                  *)
(***************************************************************************)
\* the same with the conversation created when it is not found
GetOrCreateConversation(idParam) ==
    /\ arrived' = arrived + 1
    /\ LET id == arrived + 1
           req == Request(Obj(<< P("id", Str(idParam)) >>), EmptyObj)
           created == Obj(<< P("messages", Arr(<<>>)) >>)
           conversation == Or(MapGet(conversations, Str(idParam)), created)
       IN  /\ conversations' = MapSet(conversations, Str(idParam), conversation)
           /\ Respond(id, "conversations", req, "none", Undef, Undef, 200, conversation)
    /\ UNCHANGED <<env, pendingRequests, inflight, outbound, uuids, channels>>

\* the same with the lookup evicting the pending requests of the
\* conversation it is asked for
GetConversationEvicts(idParam) ==
    /\ arrived' = arrived + 1
    /\ LET id == arrived + 1
           req == Request(Obj(<< P("id", Str(idParam)) >>), EmptyObj)
           conversation == MapGet(conversations, Str(idParam))
           kept == { c \in DOMAIN pendingRequests :
                       Get(pendingRequests[c], "conversationId") # Str(idParam) }
       IN  /\ pendingRequests' = [c \in kept |-> pendingRequests[c]]
           /\ IF ~Truthy(conversation)
              THEN Respond(id, "conversations", req, "none", Undef, Undef, 404,
                           Obj(<< P("error", Str("Conversation not found")) >>))
              ELSE Respond(id, "conversations", req, "none", Undef, Undef, 200, conversation)
    /\ UNCHANGED <<env, conversations, inflight, outbound, uuids, channels>>

GetConversation(idParam) ==
    /\ arrived' = arrived + 1
    /\ LET id == arrived + 1
           req == Request(Obj(<< P("id", Str(idParam)) >>), EmptyObj)
           conversation == MapGet(conversations, Str(idParam))
       IN  IF ~Truthy(conversation)
           THEN Respond(id, "conversations", req, "none", Undef, Undef, 404,
                        Obj(<< P("error", Str("Conversation not found")) >>))
           ELSE Respond(id, "conversations", req, "none", Undef, Undef, 200, conversation)
    /\ UNCHANGED <<env, pendingRequests, conversations, inflight, outbound, uuids,
                   channels>>

(***************************************************************************)
(* The environment: configurations, callers and the provider.              *)
(***************************************************************************)
\* the secret the provider signs its webhooks with
ProviderSecret == "whsec_provider"

\* the documented signature scheme: lowercase-hex HMAC-SHA256 of the signed
\* text under the key.  The digest is modelled as an injective function of
\* key and text (no collisions between the few texts of the model).
HmacSha256Hex(key, text) == "hmac-sha256[" \o key \o "](" \o text \o ")"

\* generateSignature(timestamp, body, secret) of the test-suite
GenerateSignature(timestamp, body, secret) ==
    HmacSha256Hex(secret, timestamp \o "." \o StringifyText(body))

\* the configurations the server is started with
Environments ==
    { [MODELRIVER_API_KEY |-> Str("mr_key"), WEBHOOK_SECRET |-> Str(ProviderSecret),
       NODE_ENV |-> Str("development")],
      [MODELRIVER_API_KEY |-> Undef, WEBHOOK_SECRET |-> Undef,
       NODE_ENV |-> Str("production")] }

\* bodies of POST /chat
ChatBodies ==
    { Json(<< P("message", m), P("conversationId", Undef) >>) :
        m \in {Undef, Str(""), Str("Hello test")} }
    \cup { Json(<< P("message", Str("Hello test")), P("conversationId", Str("conv-A")) >>) }

\* { choices: [ { message: { role: 'assistant', content } } ] }
Choices(content) ==
    Obj(<< P("choices", Arr(<< Obj(<< P("message",
            Obj(<< P("role", Str("assistant")), P("content", content) >>)) >>) >>)) >>)

StructuredPayload == Obj(<< P("reply", Str("ok")), P("sentiment", Str("neutral")) >>)

\* a chat completion that carries identifiers of the provider's own
CompletionPayload ==
    Obj(<< P("id", Str("chatcmpl-1")), P("conversation_id", Str("provider-conv")) >>
        \o Choices(Str("Hi")).v)

\* response payloads a webhook carries in data
DataValues ==
    { Choices(Str("Hi")), Choices(Str("")), Obj(<< P("response", Choices(Str("Nested"))) >>),
      Obj(<< P("choices", Arr(<<>>)) >>), StructuredPayload,
      Obj(<< P("id", Str("provider-id")), P("conversation_id", Str("provider-conv")),
             P("reply", Str("ok")) >>),
      Arr(<< Str("a"), Str("b") >>), Str("plain"), Str(""), Num(0), Bool(FALSE), Null,
      Undef, CompletionPayload }

Timestamp == "1700000000"
CallbackAddress(ch) == "https://api.modelriver.com/v1/callback/" \o ch

\* a webhook body; absent fields are passed as Undef
WebhookBody(channel_id, type, data, ai_response, callback_url) ==
    Json(<< P("type", type), P("channel_id", channel_id), P("status", Str("success")),
            P("data", data), P("ai_response", ai_response),
            P("callback_url", callback_url) >>)

\* the headers of a webhook the provider signed with its secret
SignedHeaders(body) ==
    Json(<< P("x-modelriver-signature",
              Str(GenerateSignature(Timestamp, body, ProviderSecret))),
            P("x-modelriver-timestamp", Str(Timestamp)) >>)

\* headers of webhooks that do not carry a valid signature
UnsignedHeaders(body) ==
    { Json(<< P("x-modelriver-timestamp", Str(Timestamp)) >>),
      Json(<< P("x-modelriver-signature",
                Str(GenerateSignature(Timestamp, body, ProviderSecret))) >>),
      Json(<< P("x-modelriver-signature",
                Str(GenerateSignature(Timestamp, body, "wrong_secret"))),
              P("x-modelriver-timestamp", Str(Timestamp)) >>),
      Json(<< P("x-modelriver-signature", Str("invalid-signature")),
              P("x-modelriver-timestamp", Str(Timestamp)) >>) }

\* the standard webhook of the first dispatch, with a callback address
BaseBody ==
    WebhookBody(ChannelId(1), Undef, Choices(Str("Hi")), Undef, Str(CallbackAddress("ch-1")))

\* the webhook requests of the specification Spec: the standard webhook of
\* the first dispatch with and without a callback address, one with
\* structured output, one for a channel id the provider never assigned, and
\* one without its signature header
WebhookRequests ==
    { [body |-> b, headers |-> SignedHeaders(b)] :
        b \in { BaseBody,
                WebhookBody(ChannelId(1), Undef, Choices(Str("Hi")), Undef, Undef),
                WebhookBody(ChannelId(1), Undef, StructuredPayload, Undef,
                            Str(CallbackAddress("ch-1"))),
                WebhookBody(Str("ch-unknown"), Undef, Choices(Str("Hi")), Undef, Undef) } }
    \cup
    { [body |-> BaseBody,
       headers |-> Json(<< P("x-modelriver-timestamp", Str(Timestamp)) >>)] }

\* the webhook bodies of the specification SpecWide: standard webhooks with
\* each payload, with and without a callback address, for a known and an
\* unknown channel id; webhooks that carry ai_response.data, with and
\* without the event type; callback addresses of every kind
WideWebhookBodies ==
    { WebhookBody(ch, Undef, d, Undef, cb) :
        ch \in {ChannelId(1), Str("ch-unknown")}, d \in DataValues,
        cb \in {Undef, Str(CallbackAddress("ch-1"))} }
    \cup
    { WebhookBody(ChannelId(1), ty, d, Obj(<< P("data", a) >>), Str(CallbackAddress("ch-1"))) :
        ty \in {Undef, Str("task.ai_generated"), Str("task.other")},
        d \in {Undef, Choices(Str("Hi"))},
        a \in {Choices(Str("Event")), StructuredPayload, Null} }
    \cup
    { WebhookBody(ChannelId(1), Undef, d, Undef, cb) :
        d \in {Choices(Str("Hi")), StructuredPayload},
        cb \in {Str(CallbackAddress("ch-other")), Str("ftp://example.com/callback/ch-1"),
                Str("httpx"), Num(7), Str("")} }

\* the webhook requests of the specification SpecWide
WideWebhookRequests ==
    { [body |-> b, headers |-> SignedHeaders(b)] : b \in WideWebhookBodies }
    \cup
    { [body |-> BaseBody, headers |-> h] : h \in UnsignedHeaders(BaseBody) }
    \cup
    { [body |-> b,
       headers |-> Json(<< P("x-modelriver-signature",
                             Str(GenerateSignature(Timestamp, b, ProviderSecret))),
                           P("x-modelriver-timestamp", Str(Timestamp)),
                           P("x-modelriver-callback-url", Str("http://header.example/hook")) >>)] :
        b \in { BaseBody, WebhookBody(ChannelId(1), Undef, Choices(Str("Hi")), Undef, Undef) } }

\* the webhook requests of the specification SpecLog: the standard webhook
\* of the first dispatch, a chat completion with ids of its own for the same
\* channel id, and a webhook for a channel id the provider never assigned
LogWebhookRequests ==
    { [body |-> b, headers |-> SignedHeaders(b)] :
        b \in { BaseBody,
                WebhookBody(ChannelId(1), Undef, CompletionPayload, Undef,
                            Str(CallbackAddress("ch-1"))),
                WebhookBody(Str("ch-unknown"), Undef, Choices(Str("Hi")), Undef, Undef) } }

\* the address a webhook carries in its x-modelriver-callback-url header
HeaderAddress == "http://header.example/hook"

\* the headers of a signed webhook that carries the callback header too
HeadersWithCallback(body) ==
    Json(<< P("x-modelriver-signature",
              Str(GenerateSignature(Timestamp, body, ProviderSecret))),
            P("x-modelriver-timestamp", Str(Timestamp)),
            P("x-modelriver-callback-url", Str(HeaderAddress)) >>)

\* the webhook requests of the specification SpecForward: the standard
\* webhook of the first dispatch with the address of its own channel id and
\* with the address of another channel id, and webhooks with the callback
\* header next to an address in the body, to no address, to an empty one
\* and to one that is not an HTTP address
ForwardWebhookRequests ==
    { [body |-> b, headers |-> SignedHeaders(b)] :
        b \in { BaseBody,
                WebhookBody(ChannelId(1), Undef, Choices(Str("Hi")), Undef,
                            Str(CallbackAddress("ch-other"))) } }
    \cup
    { [body |-> b, headers |-> HeadersWithCallback(b)] :
        b \in { BaseBody,
                WebhookBody(ChannelId(1), Undef, Choices(Str("Hi")), Undef, Undef),
                WebhookBody(ChannelId(1), Undef, Choices(Str("Hi")), Undef, Str("")),
                WebhookBody(ChannelId(1), Undef, Choices(Str("Hi")), Undef,
                            Str("ftp://example.com/callback/ch-1")) } }

\* ids asked of GET /conversations/:id
ConversationIds == {"conv-A", "undefined"}

(***************************************************************************)
(* The specification.                                                      *)
(***************************************************************************)
Init ==
    /\ env \in Environments
    /\ pendingRequests = EmptyMap
    /\ conversations = EmptyMap
    /\ inflight = EmptyMap
    /\ responses = <<>>
    /\ outbound = <<>>
    /\ uuids = 0
    /\ channels = 0
    /\ arrived = 0

\* one step of the server: a request arrives (at most maxRequests of them,
\* /chat bodies drawn from chats, webhooks from hooks, conversation ids
\* from ids) or an awaited call ends
StepOf(maxRequests, chats, hooks, ids) ==
    \/ /\ arrived < maxRequests
       /\ \E body \in chats : ChatReceive(body)
    \/ \E id \in DOMAIN inflight, outcome \in ProviderOutcomes :
          ChatProviderReplies(id, outcome)
    \/ /\ arrived < maxRequests
       /\ \E r \in hooks : WebhookReceive(r.body, r.headers)
    \/ \E id \in DOMAIN inflight, outcome \in CallbackOutcomes :
          WebhookCallbackReturns(id, outcome)
    \/ /\ arrived < maxRequests
       /\ \E idParam \in ids : GetConversation(idParam)

Step(maxRequests, hooks) == StepOf(maxRequests, ChatBodies, hooks, ConversationIds)

Next == Step(MaxRequests, WebhookRequests)

Spec == Init /\ [][Next]_vars

NextWide == Step(MaxWideRequests, WideWebhookRequests)

SpecWide == Init /\ [][NextWide]_vars

\* the dispatch handler under every /chat body, next to one webhook and one
\* lookup
NextDispatch ==
    StepOf(MaxDispatchRequests, ChatBodies,
           { [body |-> BaseBody, headers |-> SignedHeaders(BaseBody)] }, {"conv-A"})

SpecDispatch == Init /\ [][NextDispatch]_vars

\* the Conversation Log under the webhooks of a dispatch with a
\* conversationId of the caller's
NextLog ==
    StepOf(MaxLogRequests,
           { Json(<< P("message", Str("Hello test")), P("conversationId", Str("conv-A")) >>) },
           LogWebhookRequests, ConversationIds)

SpecLog == Init /\ [][NextLog]_vars

\* the lookup of a conversation before and after the webhook of its
\* dispatch
NextLookup ==
    StepOf(MaxLookupRequests,
           { Json(<< P("message", Str("Hello test")), P("conversationId", Str("conv-A")) >>) },
           { [body |-> BaseBody, headers |-> SignedHeaders(BaseBody)] }, ConversationIds)

SpecLookup == Init /\ [][NextLookup]_vars

\* the forwarding address under webhooks that carry it in the body, in the
\* header or in both
NextForward ==
    StepOf(MaxForwardRequests,
           { Json(<< P("message", Str("Hello test")), P("conversationId", Str("conv-A")) >>) },
           ForwardWebhookRequests, {"conv-A"})

SpecForward == Init /\ [][NextForward]_vars

\* the webhooks of Spec next to one dispatch, with every callback POST
\* ending: axios settles the promise of the POST when the response arrives,
\* when the connection fails or when its 30-second timeout expires, and the
\* event loop then resumes the handler
NextLive ==
    StepOf(MaxLiveRequests,
           { Json(<< P("message", Str("Hello test")), P("conversationId", Str("conv-A")) >>) },
           WebhookRequests, {"conv-A"})

SpecLive ==
    /\ Init
    /\ [][NextLive]_vars
    /\ \A n \in 1..MaxLiveRequests :
          WF_vars(\E outcome \in CallbackOutcomes : WebhookCallbackReturns(n, outcome))

(***************************************************************************)
(* Vocabulary of the properties.                                           *)
(***************************************************************************)
WebhookResponses == { i \in DOMAIN responses : responses[i].route = "webhook" }
ChatResponses == { i \in DOMAIN responses : responses[i].route = "chat" }

ChannelOf(req) == Get(req.body, "channel_id")

\* the request numbers of the callback POSTs issued so far
Forwarded == { outbound[o].id : o \in { x \in DOMAIN outbound :
                  outbound[x].url # MODELRIVER_API_URL \o "/v1/ai/async" } }

\* the records of the Conversation Log
LoggedRecords ==
    UNION { { Get(conversations[c], "messages").v[n] :
                n \in 1..Len(Get(conversations[c], "messages").v) } :
            c \in DOMAIN conversations }

\* the request carries the signature the documented scheme expects under
\* the server's secret
CarriesValidSignature(req) ==
    LET signature == Get(req.headers, "x-modelriver-signature")
        timestamp == Get(req.headers, "x-modelriver-timestamp")
    IN  /\ Truthy(env.WEBHOOK_SECRET)
        /\ Truthy(signature)
        /\ Truthy(timestamp)
        /\ signature.v = GenerateSignature(timestamp.v, req.body, env.WEBHOOK_SECRET.v)

\* the documented verifier lets the request through: it carries a valid
\* signature, or no secret is configured and the posture is not production
Authentic(req) ==
    \/ CarriesValidSignature(req)
    \/ ~Truthy(env.WEBHOOK_SECRET) /\ env.NODE_ENV # Str("production")

\* the payload the normalizer selects: ai_response.data of an event-driven
\* envelope, data of any other
SelectedPayload(body) ==
    IF Get(body, "type") = Str("task.ai_generated")
       /\ ~Nullish(OptGet(Get(body, "ai_response"), "data"))
    THEN Get(Get(body, "ai_response"), "data")
    ELSE Get(body, "data")

\* every webhook request for channel id c that arrived after the server had
\* sent k responses, answered or still suspended, by request number
WebhooksAfter(c, k) ==
    { responses[i].id : i \in { x \in WebhookResponses :
          ChannelOf(responses[x].req) = c /\ responses[x].req.at >= k } }
    \cup
    { id \in DOMAIN inflight :
          /\ inflight[id].route = "webhook"
          /\ ChannelOf(inflight[id].req) = c
          /\ inflight[id].req.at >= k }

(***************************************************************************)
(* C1.  Once its record is in the Conversation Log, an authentic webhook   *)
(* is answered 200 with success whatever the forwarding POST ended in.     *)
(***************************************************************************)
C1_ForwardingNeverFailsAck ==
    \A i \in WebhookResponses :
        (Authentic(responses[i].req) /\ responses[i].awaited \in CallbackOutcomes) =>
            /\ responses[i].stored \in LoggedRecords
            /\ responses[i].status = 200
            /\ Get(responses[i].body, "success") = Bool(TRUE)

(***************************************************************************)
(* C2.  Of the first two webhooks, both authentic, for channel id c that   *)
(* follow the dispatch which stored the PendingRequest for c, exactly one  *)
(* produces a record with the original prompt and messageId; the other     *)
(* produces a record with "Unknown prompt" and a fresh id and is answered  *)
(* 200.                                                                    *)
(***************************************************************************)
C2_ConsumedAtMostOnce ==
    \A k \in ChatResponses : \A i, j \in WebhookResponses :
        LET d == responses[k]
            a == responses[i]
            b == responses[j]
            c == Get(d.body, "channel_id")
            original(w) ==
                /\ w.stored # Undef
                /\ Get(w.stored, "prompt") = Get(d.stored, "prompt")
                /\ Get(w.stored, "id") = Get(d.stored, "messageId")
            degraded(w) ==
                /\ w.stored # Undef
                /\ Get(w.stored, "prompt") = Str("Unknown prompt")
                /\ Get(w.stored, "id") # Get(d.stored, "messageId")
                /\ w.status = 200
        IN  ( /\ d.status = 200
              /\ Authentic(a.req) /\ Authentic(b.req)
              /\ a.id < b.id
              /\ a.id \in WebhooksAfter(c, k)
              /\ b.id \in WebhooksAfter(c, k)
              /\ \A id \in WebhooksAfter(c, k) : id >= a.id /\ (id = a.id \/ id >= b.id) )
            => \/ original(a) /\ degraded(b)
               \/ original(b) /\ degraded(a)

(***************************************************************************)
(* C3.  With a shared secret configured, a webhook without a valid         *)
(* signature causes no Correlation Store removal, no Conversation Log      *)
(* append and no POST to the forwarding address of its body.               *)
(***************************************************************************)
C3_SignatureGatesProcessing ==
    Truthy(env.WEBHOOK_SECRET) =>
        /\ \A i \in WebhookResponses :
              ~CarriesValidSignature(responses[i].req) =>
                  /\ responses[i].stored = Undef
                  /\ responses[i].id \notin Forwarded
        /\ \A id \in DOMAIN inflight :
              inflight[id].route = "webhook" => CarriesValidSignature(inflight[id].req)

(***************************************************************************)
(* C4.  A webhook without the signature header is answered 401 with the    *)
(* missing-signature message; one with the signature header but without    *)
(* the timestamp header is answered 401 with the missing-timestamp message.*)
(***************************************************************************)
C4_MissingHeadersAre401 ==
    Truthy(env.WEBHOOK_SECRET) =>
        \A i \in WebhookResponses :
            LET r == responses[i]
                signature == Get(r.req.headers, "x-modelriver-signature")
                timestamp == Get(r.req.headers, "x-modelriver-timestamp")
            IN  /\ ~Truthy(signature) =>
                      /\ r.status = 401
                      /\ Get(r.body, "message") = Str("Missing X-ModelRiver-Signature header")
                /\ (Truthy(signature) /\ ~Truthy(timestamp)) =>
                      /\ r.status = 401
                      /\ Get(r.body, "message") = Str("Missing X-ModelRiver-Timestamp header")

(***************************************************************************)
(* C5.  With a shared secret configured, a webhook is answered 401         *)
(* Unauthorized exactly when its signature header is not the HMAC-SHA256   *)
(* of timestamp.rawBody under that secret, and is processed otherwise.     *)
(***************************************************************************)
C5_AllowedIffSignatureMatches ==
    Truthy(env.WEBHOOK_SECRET) =>
        \A i \in WebhookResponses :
            LET r == responses[i]
            IN  IF CarriesValidSignature(r.req)
                THEN r.status # 401
                ELSE r.status = 401 /\ Get(r.body, "error") = Str("Unauthorized")

(***************************************************************************)
(* C6.  Without a shared secret, in the production posture every webhook   *)
(* is denied with a configuration error and nothing is processed; in the   *)
(* non-production posture every webhook is allowed.                        *)
(***************************************************************************)
C6_UnsetSecretFollowsPosture ==
    ~Truthy(env.WEBHOOK_SECRET) =>
        /\ \A i \in WebhookResponses :
              IF env.NODE_ENV = Str("production")
              THEN /\ responses[i].status = 500
                   /\ responses[i].stored = Undef
                   /\ responses[i].id \notin Forwarded
              ELSE responses[i].status # 401
        /\ \A id \in DOMAIN inflight :
              inflight[id].route = "webhook" => env.NODE_ENV # Str("production")

(***************************************************************************)
(* C7.  After a dispatch with prompt P was answered with channel id c, the *)
(* first webhook for c, authentic, with data as its payload and the text T *)
(* at data.choices[0].message.content, produces a record with response T,  *)
(* prompt P and the messageId and conversationId of the dispatch.          *)
(***************************************************************************)
C7_RoundTrip ==
    \A k \in ChatResponses : \A i \in WebhookResponses :
        LET d == responses[k]
            w == responses[i]
            c == Get(d.body, "channel_id")
            data == Get(w.req.body, "data")
            T == ChoicesContent(data)
        IN  ( /\ d.status = 200
              /\ Authentic(w.req)
              /\ w.id \in WebhooksAfter(c, k)
              /\ \A id \in WebhooksAfter(c, k) : id >= w.id
              /\ Get(w.req.body, "type") # Str("task.ai_generated")
              /\ TypeofString(T) )
            => /\ w.stored \in LoggedRecords
               /\ Get(w.stored, "response") = T
               /\ Get(w.stored, "prompt") = Get(d.stored, "prompt")
               /\ Get(w.stored, "id") = Get(d.stored, "messageId")
               /\ Get(w.stored, "conversation_id") = Get(d.stored, "conversationId")

(***************************************************************************)
(* C8.  While every webhook handled so far was authentic, every record of  *)
(* the Conversation Log has a defined id and a defined conversationId,     *)
(* each generated here or supplied by the caller of /chat.                 *)
(***************************************************************************)
C8_RecordIdsAreOurs ==
    LET generated == { Uuid(n) : n \in 1..uuids }
        supplied == { Get(b, "conversationId") : b \in ChatBodies } \ {Undef}
        handled == { responses[i].req : i \in WebhookResponses }
                   \cup { inflight[id].req :
                            id \in { x \in DOMAIN inflight : inflight[x].route = "webhook" } }
    IN  (\A req \in handled : Authentic(req)) =>
            \A r \in LoggedRecords :
                /\ Get(r, "id") \in generated
                /\ Get(r, "conversation_id") \in generated \cup supplied

(***************************************************************************)
(* C9.  An authentic webhook whose channel id has no entry in the          *)
(* Correlation Store is answered 200 with success, its record has prompt   *)
(* "Unknown prompt" and an id no dispatch generated, and its processing    *)
(* leaves the Correlation Store as it was.                                 *)
(***************************************************************************)
C9_UnknownChannelDegrades ==
    [][ /\ \A i \in WebhookResponses' \ WebhookResponses :
              (Authentic(responses'[i].req) /\ responses'[i].found = EmptyObj) =>
                  /\ responses'[i].status = 200
                  /\ Get(responses'[i].body, "success") = Bool(TRUE)
                  /\ responses'[i].stored \in LoggedRecords'
                  /\ Get(responses'[i].stored, "prompt") = Str("Unknown prompt")
                  /\ \A k \in ChatResponses :
                        responses[k].status = 200 =>
                            Get(responses'[i].stored, "id") # Get(responses[k].stored, "messageId")
        /\ ( /\ arrived' = arrived + 1
             /\ \/ \E i \in WebhookResponses' \ WebhookResponses :
                      responses'[i].found = EmptyObj
                \/ \E id \in DOMAIN inflight' \ DOMAIN inflight :
                      inflight'[id].route = "webhook" /\ inflight'[id].found = EmptyObj )
           => pendingRequests' = pendingRequests ]_vars

(***************************************************************************)
(* C10.  An authentic webhook whose selected payload is a non-array object *)
(* with neither a choices nor a response field is processed successfully:  *)
(* its record is in the Conversation Log with that object, unmodified, as  *)
(* its response.                                                           *)
(***************************************************************************)
C10_StructuredPassThrough ==
    \A i \in WebhookResponses :
        LET r == responses[i]
            payload == SelectedPayload(r.req.body)
        IN  ( /\ Authentic(r.req)
              /\ payload.t = "object"
              /\ ~HasKey(payload, "choices")
              /\ ~HasKey(payload, "response") )
            => /\ r.awaited = "none" => r.status = 200
               /\ r.stored \in LoggedRecords
               /\ Get(r.stored, "response") = payload

\* the spec's structured output: a non-array object with neither a choices
\* nor a response field
StructuredOutput(payload) ==
    /\ payload.t = "object"
    /\ ~HasKey(payload, "choices")
    /\ ~HasKey(payload, "response")

\* the response the spec's unstructured extraction yields for a payload
UnstructuredResponse(payload) ==
    LET direct == ChoicesContent(payload)
        nested == ChoicesContent(OptGet(payload, "response"))
    IN  IF direct # Undef THEN direct
        ELSE IF nested # Undef THEN nested
        ELSE JSONstringify(payload)

\* the numbers of the outbound calls that are callback POSTs
CallbackPosts ==
    { o \in DOMAIN outbound : outbound[o].url # MODELRIVER_API_URL \o "/v1/ai/async" }

\* the webhook request number id as its handler left it: its request, the
\* PendingRequest it found and the record it stored
WebhookOf(id) ==
    IF id \in DOMAIN inflight
    THEN inflight[id]
    ELSE responses[CHOOSE i \in WebhookResponses : responses[i].id = id]

(***************************************************************************)
(* C11.  The record of an authentic webhook whose selected payload is      *)
(* present and is not structured output has as its response the value at   *)
(* choices[0].message.content when that path exists, else the value at     *)
(* response.choices[0].message.content when that path exists, else the     *)
(* JSON text of the whole payload.                                         *)
(***************************************************************************)
C11_UnstructuredExtraction ==
    \A i \in WebhookResponses :
        LET r == responses[i]
            payload == SelectedPayload(r.req.body)
        IN  ( /\ Authentic(r.req)
              /\ r.stored # Undef
              /\ payload # Undef
              /\ ~StructuredOutput(payload) )
            => Get(r.stored, "response") = UnstructuredResponse(payload)

(***************************************************************************)
(* C12.  The data field of every envelope posted to a forwarding address   *)
(* for an authentic webhook is a non-array object whose id is the id of    *)
(* the webhook's record and whose conversationId is defined.               *)
(***************************************************************************)
C12_ForwardedDataShape ==
    \A o \in CallbackPosts :
        LET w == WebhookOf(outbound[o].id)
            data == Get(outbound[o].payload, "data")
        IN  Authentic(w.req) =>
                /\ data.t = "object"
                /\ Get(data, "id") # Undef
                /\ Get(data, "id") = Get(w.stored, "id")
                /\ Get(data, "conversation_id") # Undef

\* the records of conversation c, in order
Messages(convs, c) == Get(convs[c], "messages").v

\* where a record is in the Conversation Log: conversation and position
RecordPlaces(convs, record) ==
    { pl \in UNION { { <<c, n>> : n \in 1..Len(Messages(convs, c)) } : c \in DOMAIN convs } :
        Messages(convs, pl[1])[pl[2]] = record }

\* the request numbers of the webhooks that got as far as storing a record
StoringWebhooks ==
    { responses[i].id : i \in { x \in WebhookResponses : responses[x].stored # Undef } }
    \cup { id \in DOMAIN inflight : inflight[id].route = "webhook" }

\* number of records in the whole Conversation Log
RECURSIVE SumOfLengths(_, _)
SumOfLengths(convs, cs) ==
    IF cs = {} THEN 0
    ELSE LET c == CHOOSE x \in cs : TRUE
         IN  Len(Messages(convs, c)) + SumOfLengths(convs, cs \ {c})

C14_IdentifiersAgree ==
    /\ \A i \in WebhookResponses :
          responses[i].status = 200 =>
              Get(responses[i].body, "record_id") = Get(responses[i].stored, "id")
    /\ \A o \in CallbackPosts :
          LET record == WebhookOf(outbound[o].id).stored
              envelope == outbound[o].payload
              data == Get(envelope, "data")
              metadata == Get(envelope, "metadata")
          IN  /\ Get(envelope, "task_id") = Get(record, "id")
              /\ Get(data, "id") = Get(record, "id")
              /\ Get(data, "conversation_id") = Get(record, "conversation_id")
              /\ Get(metadata, "conversation_id") = Get(record, "conversation_id")

\* a webhook that found its PendingRequest and whose payload carries ids of
\* its own was forwarded and answered 200
C14_Witness ==
    \E i \in WebhookResponses :
        /\ responses[i].status = 200
        /\ responses[i].awaited \in CallbackOutcomes
        /\ responses[i].found # EmptyObj
        /\ Get(responses[i].req.body, "data") = CompletionPayload

(***************************************************************************)
(* C15.  A /chat request whose message is missing or empty is answered     *)
(* 400, whether or not an API credential is configured; one with a message *)
(* made while no API credential is configured is answered 500; in both     *)
(* cases no provider call is made and the Correlation Store is unchanged.  *)
(***************************************************************************)
C15_DispatchPreconditions ==
    [][ /\ \A i \in ChatResponses' \ ChatResponses :
              LET r == responses'[i]
                  message == Get(r.req.body, "message")
                  refused == ~Truthy(message) \/ ~Truthy(env.MODELRIVER_API_KEY)
              IN  /\ ~Truthy(message) => r.status = 400
                  /\ (Truthy(message) /\ ~Truthy(env.MODELRIVER_API_KEY)) => r.status = 500
                  /\ refused =>
                        /\ r.awaited = "none"
                        /\ outbound' = outbound
                        /\ pendingRequests' = pendingRequests
        /\ \A id \in DOMAIN inflight' \ DOMAIN inflight :
              inflight'[id].route = "chat" =>
                  /\ Truthy(Get(inflight'[id].req.body, "message"))
                  /\ Truthy(env.MODELRIVER_API_KEY) ]_vars

\* without a credential, one request without a message was answered 400
\* and one with a message was answered 500
C15_Witness ==
    /\ ~Truthy(env.MODELRIVER_API_KEY)
    /\ \E i \in ChatResponses :
          ~Truthy(Get(responses[i].req.body, "message")) /\ responses[i].status = 400
    /\ \E i \in ChatResponses :
          Truthy(Get(responses[i].req.body, "message")) /\ responses[i].status = 500

\* the provider call issued for /chat request number id
DispatchOf(id) ==
    outbound[CHOOSE o \in DOMAIN outbound \ CallbackPosts : outbound[o].id = id]

(***************************************************************************)
(* C16.  When the provider call of a /chat request fails, with a non-2xx   *)
(* response or with no response, the request is answered 500 with the      *)
(* provider's message (the transport's message when there is no response); *)
(* neither the step that issues the call nor the step that receives its    *)
(* failure changes the Correlation Store, and the store holds no           *)
(* PendingRequest with the messageId of that request.                      *)
(***************************************************************************)
C16_FailedDispatchLeavesNoTrace ==
    [][ /\ \A i \in ChatResponses' \ ChatResponses :
              LET r == responses'[i]
              IN  r.awaited \in {"rejected", "network"} =>
                      /\ r.status = 500
                      /\ r.awaited = "rejected" =>
                            /\ Get(r.body, "error") = Get(ProviderErrorData, "message")
                            /\ Get(r.body, "details") = ProviderErrorData
                      /\ r.awaited = "network" => Get(r.body, "error") = Str("Network Error")
                      /\ pendingRequests' = pendingRequests
                      /\ \A c \in DOMAIN pendingRequests' :
                            Get(pendingRequests'[c], "messageId") # inflight[r.id].messageId
        /\ (\E id \in DOMAIN inflight' \ DOMAIN inflight : inflight'[id].route = "chat")
              => pendingRequests' = pendingRequests ]_vars

\* a dispatch failed and was answered 500 while the store held the
\* PendingRequest of an earlier dispatch
C16_Witness ==
    /\ \E i \in ChatResponses :
          responses[i].awaited \in {"rejected", "network"} /\ responses[i].status = 500
    /\ DOMAIN pendingRequests # {}

(***************************************************************************)
(* C17.  In the step in which /chat answers 200 with channel id c, the     *)
(* Correlation Store holds under c a PendingRequest with the submitted     *)
(* prompt and with the conversationId and messageId sent to the provider   *)
(* (the caller's conversationId when one was supplied), and the response   *)
(* carries the provider's channel_id, ws_token, websocket_url,             *)
(* websocket_channel and project_id unchanged.                             *)
(***************************************************************************)
C17_StoredBeforeAnswered ==
    [][ \A i \in ChatResponses' \ ChatResponses :
            LET r == responses'[i]
                c == Get(r.body, "channel_id")
                supplied == Get(r.req.body, "conversationId")
                metadata == Get(DispatchOf(r.id).payload, "metadata")
                data == ProviderData(channels')
            IN  r.status = 200 =>
                    /\ \A key \in {"channel_id", "ws_token", "websocket_url",
                                   "websocket_channel", "project_id"} :
                          Get(r.body, key) = Get(data, key)
                    /\ c \in DOMAIN pendingRequests'
                    /\ Get(pendingRequests'[c], "prompt") = Get(r.req.body, "message")
                    /\ Get(pendingRequests'[c], "conversationId") # Undef
                    /\ Get(pendingRequests'[c], "conversationId") =
                          Get(metadata, "conversation_id")
                    /\ Truthy(supplied) => Get(pendingRequests'[c], "conversationId") = supplied
                    /\ Get(pendingRequests'[c], "messageId") # Undef
                    /\ Get(pendingRequests'[c], "messageId") = Get(metadata, "message_id") ]_vars

\* two dispatches were answered 200, one of them with a conversationId of
\* the caller's
C17_Witness ==
    \E i, j \in ChatResponses :
        /\ i # j
        /\ responses[i].status = 200 /\ responses[j].status = 200
        /\ Get(responses[i].req.body, "conversationId") = Str("conv-A")
        /\ Get(responses[j].req.body, "conversationId") = Undef

\* the request number of the webhook that stored a record
StoredBy(record) == CHOOSE id \in StoringWebhooks : WebhookOf(id).stored = record

\* within each conversation the records are in the order in which their
\* webhooks were processed
RecordsInProcessingOrder ==
    \A c \in DOMAIN conversations :
        \A m, n \in 1..Len(Messages(conversations, c)) :
            m < n => StoredBy(Messages(conversations, c)[m])
                       < StoredBy(Messages(conversations, c)[n])

(***************************************************************************)
(* C18.  In every step each conversation keeps its records or gets one     *)
(* record added at the end, a new conversation starts with one record, no  *)
(* conversation is deleted, and the records of a conversation are in the   *)
(* order in which their webhooks were processed.                           *)
(***************************************************************************)
C18_LogIsAppendOnly ==
    [][ /\ \A c \in DOMAIN conversations :
              /\ c \in DOMAIN conversations'
              /\ LET old == Messages(conversations, c)
                     new == Messages(conversations', c)
                 IN  \/ new = old
                     \/ Len(new) = Len(old) + 1 /\ SubSeq(new, 1, Len(old)) = old
        /\ \A c \in DOMAIN conversations' \ DOMAIN conversations :
              Len(Messages(conversations', c)) = 1
        /\ RecordsInProcessingOrder' ]_vars

\* some conversation holds two records
C18_Witness ==
    \E c \in DOMAIN conversations : Len(Messages(conversations, c)) >= 2

ConversationResponses == { i \in DOMAIN responses : responses[i].route = "conversations" }

InvalidForwardingAddress(address) ==
    address # Undef /\ ~(address.t = "string" /\ StartsWith(address.v, "http"))

(***************************************************************************)
(* C20.  An authentic webhook whose forwarding address is present but is   *)
(* not a string beginning with the HTTP scheme is not forwarded, its       *)
(* record is stored, the PendingRequest it found is no longer in the       *)
(* Correlation Store and it is acknowledged 200.                           *)
(***************************************************************************)
C20_InvalidAddressIsAbsent ==
    \A i \in WebhookResponses :
        LET r == responses[i]
        IN  (Authentic(r.req) /\ InvalidForwardingAddress(CallbackUrl(r.req))) =>
                /\ r.id \notin Forwarded
                /\ r.stored \in LoggedRecords
                /\ r.found # EmptyObj => ChannelOf(r.req) \notin DOMAIN pendingRequests
                /\ r.status = 200

\* the keys of an object
Keys(o) == { o.v[i].k : i \in 1..Len(o.v) }

(***************************************************************************)
(* C21.  When an authentic webhook with a valid forwarding address carries *)
(* no response payload (data and ai_response.data both null or absent),    *)
(* the data posted to the forwarding address is exactly the record's id,   *)
(* the conversationId and the message "Response processed".                *)
(***************************************************************************)
C21_AbsentPayloadCoercion ==
    \A o \in CallbackPosts :
        LET w == WebhookOf(outbound[o].id)
            body == w.req.body
            data == Get(outbound[o].payload, "data")
        IN  ( /\ Authentic(w.req)
              /\ Nullish(Get(body, "data"))
              /\ Nullish(OptGet(Get(body, "ai_response"), "data")) )
            => /\ Keys(data) = {"id", "conversation_id", "message"}
               /\ Get(data, "id") = Get(w.stored, "id")
               /\ Get(data, "conversation_id") = Get(w.stored, "conversation_id")
               /\ Get(data, "message") = Str("Response processed")

(***************************************************************************)
(* C22.  An authentic webhook with a valid forwarding address whose        *)
(* selected payload is an array is forwarded, the data of its envelope     *)
(* being the array under items next to the record's id and the             *)
(* conversationId, and is acknowledged 200.                                *)
(***************************************************************************)
C22_ArrayPayloadCoercion ==
    \A i \in WebhookResponses :
        LET r == responses[i]
            payload == SelectedPayload(r.req.body)
        IN  ( /\ Authentic(r.req)
              /\ ValidCallbackUrl(CallbackUrl(r.req))
              /\ IsArray(payload) )
            => /\ r.status = 200
               /\ \E o \in CallbackPosts :
                     LET data == Get(outbound[o].payload, "data")
                     IN  /\ outbound[o].id = r.id
                         /\ Keys(data) = {"items", "id", "conversation_id"}
                         /\ Get(data, "items") = payload
                         /\ Get(data, "id") = Get(r.stored, "id")
                         /\ Get(data, "conversation_id") = Get(r.stored, "conversation_id")

(***************************************************************************)
(* C23.  When the selected payload of a forwarded webhook is a non-array   *)
(* object, the data of the envelope has every key of the payload with its  *)
(* value, except id and conversationId, which hold the record's id and     *)
(* conversationId even when the payload has keys of those names, and has   *)
(* no other key.                                                           *)
(***************************************************************************)
C23_ObjectPayloadCoercion ==
    \A o \in CallbackPosts :
        LET w == WebhookOf(outbound[o].id)
            payload == SelectedPayload(w.req.body)
            data == Get(outbound[o].payload, "data")
        IN  payload.t = "object" =>
                /\ Keys(data) = Keys(payload) \cup {"id", "conversation_id"}
                /\ \A key \in Keys(payload) \ {"id", "conversation_id"} :
                      Get(data, key) = Get(payload, key)
                /\ Get(data, "id") = Get(w.stored, "id")
                /\ Get(data, "conversation_id") = Get(w.stored, "conversation_id")

\* a webhook that found its PendingRequest was forwarded with a payload
\* that has an id and a conversationId of its own next to other keys
C23_Witness ==
    \E o \in CallbackPosts :
        LET w == WebhookOf(outbound[o].id)
            payload == SelectedPayload(w.req.body)
        IN  /\ w.found # EmptyObj
            /\ payload.t = "object"
            /\ {"id", "conversation_id", "choices"} \subseteq Keys(payload)
            /\ Get(payload, "id") # Get(w.stored, "id")

\* a string, a number or a boolean
Primitive(x) == x.t \in {"string", "number", "boolean"}

(***************************************************************************)
(* C24.  When the selected payload of a forwarded authentic webhook is a   *)
(* string, a number or a boolean, the empty string, 0 and false included,  *)
(* the data of the envelope is the payload under content next to the       *)
(* record's id and the conversationId.                                     *)
(***************************************************************************)
C24_PrimitivePayloadCoercion ==
    \A o \in CallbackPosts :
        LET w == WebhookOf(outbound[o].id)
            payload == SelectedPayload(w.req.body)
            data == Get(outbound[o].payload, "data")
        IN  (Authentic(w.req) /\ Primitive(payload)) =>
                /\ Keys(data) = {"content", "id", "conversation_id"}
                /\ Get(data, "content") = payload
                /\ Get(data, "id") = Get(w.stored, "id")
                /\ Get(data, "conversation_id") = Get(w.stored, "conversation_id")

(***************************************************************************)
(* C25.  The response of the record of an authentic webhook is extracted   *)
(* from ai_response.data only when the type is "task.ai_generated" and     *)
(* ai_response.data is present, and from data for every other envelope,    *)
(* one that has ai_response.data but another or no type included.          *)
(***************************************************************************)
C25_SelectionFollowsTag ==
    \A i \in WebhookResponses :
        LET r == responses[i]
        IN  (Authentic(r.req) /\ r.stored # Undef) =>
                Get(r.stored, "response") = ExtractAiResponse(SelectedPayload(r.req.body))

\* the payloads an envelope carries: data and ai_response.data
CarriedPayloads(body) == { Get(body, "data"), OptGet(Get(body, "ai_response"), "data") }

(***************************************************************************)
(* C26.  For every webhook that is stored and forwarded, one payload of    *)
(* the envelope, data or ai_response.data, is the source both of the       *)
(* record's response and of the data posted to the forwarding address.     *)
(***************************************************************************)
C26_OneSelectedPayload ==
    \A o \in CallbackPosts :
        LET w == WebhookOf(outbound[o].id)
            id == Get(w.stored, "id")
            conversationId == Get(w.stored, "conversation_id")
        IN  \E payload \in CarriedPayloads(w.req.body) :
                /\ Get(w.stored, "response") = ExtractAiResponse(payload)
                /\ Get(outbound[o].payload, "data") =
                      EnrichedData(Or(payload, EmptyObj), id, conversationId)

(***************************************************************************)
(* C27.  An authentic webhook whose selected payload is an array is not    *)
(* treated as structured output: its record is in the Conversation Log     *)
(* with the JSON text of the array as its response.                        *)
(***************************************************************************)
C27_ArrayIsUnstructured ==
    \A i \in WebhookResponses :
        LET r == responses[i]
            payload == SelectedPayload(r.req.body)
        IN  (Authentic(r.req) /\ IsArray(payload)) =>
                /\ r.stored \in LoggedRecords
                /\ Get(r.stored, "response") = JSONstringify(payload)

\* every webhook request for channel id c, answered or still suspended, by
\* request number
WebhooksFor(c) ==
    { responses[i].id : i \in { x \in WebhookResponses : ChannelOf(responses[x].req) = c } }
    \cup
    { id \in DOMAIN inflight :
          inflight[id].route = "webhook" /\ ChannelOf(inflight[id].req) = c }

(***************************************************************************)
(* C28.  When a dispatch with prompt P was answered with channel id c, the *)
(* first webhook for c, authentic and received after the /chat request,    *)
(* whether before or after the dispatch stored its PendingRequest, has a   *)
(* record with prompt P, and once it is processed the Correlation Store    *)
(* holds no PendingRequest for c.                                          *)
(***************************************************************************)
C28_DispatchWebhookRace ==
    \A k \in ChatResponses : \A i \in WebhookResponses :
        LET d == responses[k]
            w == responses[i]
            c == Get(d.body, "channel_id")
        IN  ( /\ d.status = 200
              /\ Authentic(w.req)
              /\ ChannelOf(w.req) = c
              /\ w.id > d.id
              /\ \A id \in WebhooksFor(c) : id >= w.id )
            => /\ w.stored \in LoggedRecords
               /\ Get(w.stored, "prompt") = Get(d.req.body, "message")
               /\ c \notin DOMAIN pendingRequests

(***************************************************************************)
(* C29.  The webhook handler looks up the PendingRequest, appends the      *)
(* record and removes the PendingRequest in one step, with no suspension   *)
(* between them; and when the forwarding POST of a webhook is issued, the  *)
(* webhook's record is in the Conversation Log and no PendingRequest for   *)
(* its channel id is in the Correlation Store.                             *)
(***************************************************************************)
C29_StoreBeforeForward ==
    [][ /\ \A id \in StoringWebhooks' \ StoringWebhooks :
              LET w == WebhookOf(id)'
                  c == ChannelOf(w.req)
              IN  /\ w.found = Or(MapGet(pendingRequests, c), EmptyObj)
                  /\ w.stored \notin LoggedRecords
                  /\ w.stored \in LoggedRecords'
                  /\ pendingRequests' = MapDelete(pendingRequests, c)
        /\ conversations' # conversations => StoringWebhooks' # StoringWebhooks
        /\ (DOMAIN pendingRequests \ DOMAIN pendingRequests' # {})
              => StoringWebhooks' # StoringWebhooks
        /\ \A o \in CallbackPosts' \ CallbackPosts :
              LET w == inflight'[outbound'[o].id]
              IN  /\ w.stored \in LoggedRecords'
                  /\ ChannelOf(w.req) \notin DOMAIN pendingRequests' ]_vars

\* a handler is suspended in the forwarding POST of a webhook that found
\* its PendingRequest
C29_Witness ==
    \E id \in DOMAIN inflight :
        /\ inflight[id].route = "webhook"
        /\ id \in Forwarded
        /\ inflight[id].found # EmptyObj
        /\ inflight[id].stored \in LoggedRecords

(***************************************************************************)
(* C30.  When an authentic webhook is answered 500, its processing has     *)
(* left the stores as they were: no record of it is in the Conversation    *)
(* Log and the PendingRequest it found is still in the Correlation Store.  *)
(***************************************************************************)
C30_FailedWebhookHasNoEffect ==
    [][ \A i \in WebhookResponses' \ WebhookResponses :
            LET r == responses'[i]
                c == ChannelOf(r.req)
            IN  (Authentic(r.req) /\ r.status = 500) =>
                    /\ r.stored \notin LoggedRecords'
                    /\ r.found # EmptyObj => MapGet(pendingRequests', c) = r.found ]_vars

\* the callback POSTs issued for webhook request number id
PostsOf(id) == { o \in CallbackPosts : outbound[o].id = id }

\* the outcomes of the callback POST that make axios reject: a response of
\* status 500 or above, no response, a timeout
ForwardingFailures == {"5xx", "network", "timeout"}

(***************************************************************************)
(* C31.  At most one POST is issued to the forwarding address for each     *)
(* webhook, and none is issued when the POST has ended, whatever it ended  *)
(* in; a 4xx response ends forwarding like a 2xx response does, with the   *)
(* same acknowledgment, and only a 5xx response, a network failure and a   *)
(* timeout are forwarding failures.                                        *)
(***************************************************************************)
C31_NoRetryOfForwarding ==
    [][ LET after(id) == { o \in CallbackPosts' : outbound'[o].id = id }
        IN  /\ \A id \in 1..arrived' : Cardinality(after(id)) <= 1
            /\ \A i \in WebhookResponses' \ WebhookResponses :
                  LET r == responses'[i]
                  IN  r.awaited \in CallbackOutcomes =>
                          /\ outbound' = outbound
                          /\ Cardinality(after(r.id)) = 1
                          /\ r.awaited \notin ForwardingFailures =>
                                /\ r.awaited \in {"2xx", "4xx"}
                                /\ r.status = 200
                                /\ r.body = Obj(<< P("success", Bool(TRUE)),
                                                   P("message", Str("Webhook processed")),
                                                   P("record_id", Get(r.stored, "id")) >>)
            /\ \A id \in DOMAIN inflight :
                  (inflight[id].route = "webhook" /\ id \in DOMAIN inflight')
                      => after(id) = PostsOf(id) ]_vars

\* one webhook was answered after a 4xx response to its POST and another
\* after a forwarding failure, each with one POST
C31_Witness ==
    /\ \E i \in WebhookResponses :
          responses[i].awaited = "4xx" /\ Cardinality(PostsOf(responses[i].id)) = 1
    /\ \E i \in WebhookResponses :
          /\ responses[i].awaited \in {"network", "timeout"}
          /\ Cardinality(PostsOf(responses[i].id)) = 1

(***************************************************************************)
(* C32.  A PendingRequest for channel id c stays in the Correlation Store, *)
(* unchanged, through every step other than the processing of a webhook    *)
(* whose channel id is c: through every /chat dispatch, every GET, every   *)
(* webhook for another channel id and every end of an awaited call.        *)
(***************************************************************************)
C32_RemovedOnlyByOwnWebhook ==
    [][ \A c \in DOMAIN pendingRequests :
            \/ /\ c \in DOMAIN pendingRequests'
               /\ pendingRequests'[c] = pendingRequests[c]
            \/ \E id \in StoringWebhooks' \ StoringWebhooks :
                  ChannelOf(WebhookOf(id)'.req) = c ]_vars

\* the store holds the PendingRequest of a dispatch after a webhook for
\* another channel id was processed
C32_Witness ==
    /\ \E c \in DOMAIN pendingRequests :
          \E i \in WebhookResponses :
              /\ responses[i].stored # Undef
              /\ ChannelOf(responses[i].req) # c
              /\ \E k \in ChatResponses :
                    /\ responses[k].status = 200
                    /\ Get(responses[k].body, "channel_id") = c
                    /\ k < i

\* the numbers of the outbound calls that are provider calls of /chat
Dispatches == DOMAIN outbound \ CallbackPosts

\* the body of /chat request number id
ChatBodyOf(id) ==
    IF id \in DOMAIN inflight
    THEN inflight[id].req.body
    ELSE responses[CHOOSE k \in ChatResponses : responses[k].id = id].req.body

(***************************************************************************)
(* C33.  The conversationId and messageId in the metadata of a dispatch's  *)
(* provider request are the ones stored in its PendingRequest; the         *)
(* conversationId is the caller's when one was supplied and is generated   *)
(* otherwise; the messageId is generated anew for every dispatch, so no    *)
(* two dispatches share a messageId, even with the same conversationId.    *)
(***************************************************************************)
C33_DispatchIdentifiers ==
    LET generated == { Uuid(n) : n \in 1..uuids }
        metadata(o) == Get(outbound[o].payload, "metadata")
    IN  /\ \A o \in Dispatches :
              LET supplied == Get(ChatBodyOf(outbound[o].id), "conversationId")
              IN  /\ Get(metadata(o), "message_id") \in generated
                  /\ Get(metadata(o), "message_id") # Get(metadata(o), "conversation_id")
                  /\ IF Truthy(supplied)
                     THEN Get(metadata(o), "conversation_id") = supplied
                     ELSE Get(metadata(o), "conversation_id") \in generated
                  /\ \A p \in Dispatches \ {o} :
                        /\ Get(metadata(p), "message_id") # Get(metadata(o), "message_id")
                        /\ Get(metadata(p), "conversation_id") # Get(metadata(o), "message_id")
        /\ \A k \in ChatResponses :
              responses[k].status = 200 =>
                  LET sent == Get(DispatchOf(responses[k].id).payload, "metadata")
                  IN  /\ Get(responses[k].stored, "conversationId") = Get(sent, "conversation_id")
                      /\ Get(responses[k].stored, "messageId") = Get(sent, "message_id")
        /\ \A c \in DOMAIN pendingRequests :
              \E o \in Dispatches :
                  /\ Get(pendingRequests[c], "conversationId") = Get(metadata(o), "conversation_id")
                  /\ Get(pendingRequests[c], "messageId") = Get(metadata(o), "message_id")

\* two dispatches with the same conversationId of the caller's were
\* answered 200
C33_Witness ==
    \E i, j \in ChatResponses :
        /\ i # j
        /\ responses[i].status = 200 /\ responses[j].status = 200
        /\ Get(responses[i].req.body, "conversationId") = Str("conv-A")
        /\ Get(responses[j].req.body, "conversationId") = Str("conv-A")
        /\ Get(responses[i].stored, "messageId") # Get(responses[j].stored, "messageId")

\* the text that stands for the value x in a URL path; req.params.id is
\* always such a text
PathSegment(x) ==
    CASE x.t = "string" -> x.v
      [] x.t = "undefined" -> "undefined"
      [] OTHER -> StringifyText(x)

(***************************************************************************)
(* C34.  A GET /conversations/{id} made when the Conversation Log holds a  *)
(* record whose conversationId is id answers 200 with a conversation whose *)
(* records include that record, for records of webhooks that matched no    *)
(* PendingRequest too.                                                     *)
(***************************************************************************)
C34_StoredRecordsAreRetrievable ==
    [][ \A i \in ConversationResponses' \ ConversationResponses :
            LET g == responses'[i]
            IN  \A record \in LoggedRecords :
                    Str(PathSegment(Get(record, "conversation_id"))) = Get(g.req.body, "id") =>
                        /\ g.status = 200
                        /\ \E n \in 1..Len(Get(g.body, "messages").v) :
                              Get(g.body, "messages").v[n] = record ]_vars

\* request number n has been answered
Answered(n) == \E i \in DOMAIN responses : responses[i].id = n

\* the webhook handler of request number n is suspended in its callback POST
Suspended(n) == n \in DOMAIN inflight /\ inflight[n].route = "webhook"

(***************************************************************************)
(* C35.  Every webhook request gets exactly one HTTP response, of status   *)
(* 200, 401 or 500: a request that has arrived is answered or suspended in *)
(* its forwarding POST, never both and never answered twice, and, given    *)
(* that the forwarding POST ends, a suspended request is eventually        *)
(* answered.                                                               *)
(***************************************************************************)
C35_WebhookAnsweredOnce ==
    /\ [](/\ \A i, j \in DOMAIN responses : responses[i].id = responses[j].id => i = j
          /\ \A i \in WebhookResponses :
                /\ responses[i].status \in {200, 401, 500}
                /\ responses[i].id \notin DOMAIN inflight
          /\ \A n \in 1..arrived : Answered(n) \/ n \in DOMAIN inflight)
    /\ \A n \in 1..MaxLiveRequests : Suspended(n) ~> Answered(n)

\* a webhook was answered after its forwarding POST timed out and another
\* without having been suspended
C35_Witness ==
    /\ \E i \in WebhookResponses : responses[i].awaited = "timeout"
    /\ \E i \in WebhookResponses : responses[i].awaited = "none"

\* the body carries no forwarding address: the field is missing, null or
\* the empty string
NoAddress(field) == Nullish(field) \/ field = Str("")

MismatchingAddress(req) ==
    LET field == Get(req.body, "callback_url")
    IN  /\ ValidCallbackUrl(field)
        /\ ChannelIdMismatch(field.v, Get(req.body, "channel_id"))

\* the same with the id of the address equal to the channel id of the body
MatchingAddress(req) ==
    LET field == Get(req.body, "callback_url")
    IN  /\ ValidCallbackUrl(field)
        /\ UrlChannelId(field.v) = Get(req.body, "channel_id")

=============================================================================
